---- MODULE Spec2Model ----
(***************************************************************************)
(* A model of expense_tracker.py: the ExpenseTracker store (the in-memory  *)
(* expense list and category list, and the expenses.json file it loads and *)
(* rewrites), its report queries, and the form handlers of                 *)
(* ExpenseTrackerGUI that drive it.                                        *)
(*                                                                         *)
(* Conventions.  An amount is a binary floating-point number, written as   *)
(* the integer it equals, with a significand of MantissaBits bits and      *)
(* round-half-to-even addition: Python's float with the 53 bits reduced.   *)
(* A date string is the sequence of its character codes, so that Python's  *)
(* string comparison is computed, not assumed.  An optional argument is a  *)
(* record [given, value]; Python's None is given = FALSE.                  *)
(***************************************************************************)
EXTENDS Integers, Sequences, FiniteSets, TLC

VARIABLES
    expenses,             \* ExpenseTracker.expenses: sequence of records
    categories,           \* ExpenseTracker.categories: sequence of strings
    disk,                 \* the condition and content of DATA_FILE
    selected_expense_id,  \* ExpenseTrackerGUI.selected_expense_id: <<>> is None
    form,                 \* amount_var, category_var, desc_var, date_var
    tree,                 \* the rows of ExpenseTrackerGUI.tree
    last,                 \* the last call: its name and arguments
    ret,                  \* what the last call returned or raised
    prev,                 \* expenses, categories and disk when the last call began
    deleted_ids,          \* the ids of the records delete_expense has removed so far
    category_vars,        \* ExpenseTrackerGUI.category_vars: (category, checked) in key order
    timeframe_var,        \* ExpenseTrackerGUI.timeframe_var
    selected_row          \* the place in expenses of the record whose row is selected

store == <<expenses, categories, disk>>
gui   == <<selected_expense_id, form, tree, selected_row>>
reports == <<category_vars, timeframe_var>>
vars  == <<expenses, categories, disk, selected_expense_id, form, tree, last, ret, prev,
           deleted_ids, category_vars, timeframe_var, selected_row>>

-----------------------------------------------------------------------------
(* Bounds and input sets *)

\* The longest expense list the model builds.
MaxExpenses == 3

\* The bits of a float's significand (53 in Python) in the model.
MantissaBits == 4

\* "2024-01-05", "2024-02-10", "2024-03-01" as character codes.
D_Jan05 == <<50, 48, 50, 52, 45, 48, 49, 45, 48, 53>>
D_Feb10 == <<50, 48, 50, 52, 45, 48, 50, 45, 49, 48>>
D_Mar01 == <<50, 48, 50, 52, 45, 48, 51, 45, 48, 49>>
\* The empty string.
EmptyStr == <<>>
\* What datetime.now().strftime("%Y-%m-%d") returns during the run.
Today == D_Feb10

DEFAULT_CATEGORIES ==
    <<"Food & Dining", "Transportation", "Shopping", "Entertainment",
      "Bills & Utilities", "Health", "Travel", "Other">>

\* The (amount, category, description, date) arguments the store is called with.
ArgTuples ==
    { [amount |-> 12, category |-> "Food & Dining", description |-> "lunch", date |-> D_Jan05],
      [amount |-> -3, category |-> "Pets", description |-> "", date |-> D_Feb10] }

\* The date add_expense is called with: one given, or none.
DateArgs == {[given |-> TRUE, value |-> D_Jan05], [given |-> TRUE, value |-> D_Feb10],
             [given |-> FALSE, value |-> <<>>]}

\* The ids update and delete are called with: those in use, and one that misses.
IdArgs == 1 .. (MaxExpenses + 1)

\* The names add_category is called with.
CategoryArgs == {"", "Food & Dining", "Pets", "Gifts"}

-----------------------------------------------------------------------------
(* Helpers *)

None == [given |-> FALSE, value |-> <<>>]
Some(v) == [given |-> TRUE, value |-> v]

Range(s) == { s[i] : i \in 1 .. Len(s) }

\* Python's a < b on strings: lexicographic on the character codes.
RECURSIVE StrLess(_, _)
StrLess(a, b) ==
    IF b = <<>> THEN FALSE
    ELSE IF a = <<>> THEN TRUE
    ELSE IF Head(a) < Head(b) THEN TRUE
    ELSE IF Head(a) > Head(b) THEN FALSE
    ELSE StrLess(Tail(a), Tail(b))

\* The unit in the last place of a float of magnitude a: 1 below
\* 2^MantissaBits, doubling with each further bit.
RECURSIVE Ulp(_)
Ulp(a) == IF a < 2 ^ MantissaBits THEN 1 ELSE 2 * Ulp(a \div 2)

\* The float nearest to the integer x, ties to the even significand.
RoundAbs(a) ==
    LET u == Ulp(a)
        q == a \div u
        r == a % u
    IN  IF 2 * r < u THEN q * u
        ELSE IF 2 * r > u THEN (q + 1) * u
        ELSE IF q % 2 = 0 THEN q * u ELSE (q + 1) * u
Round(x) == IF x < 0 THEN 0 - RoundAbs(0 - x) ELSE RoundAbs(x)

\* float(x) of a number, and a + b on floats.
Float(x) == Round(x)
FlAdd(a, b) == Round(a + b)

-----------------------------------------------------------------------------
(* The file *)

\* The document json.dump writes: an object with both keys.
Document(e, c) ==
    [kind |-> "object", keys |-> {"expenses", "categories"}, expenses |-> e, categories |-> c]

\* A file that holds no object has no keys and no lists; kind says what it is.
Condition(kind) == [kind |-> kind, keys |-> {}, expenses |-> <<>>, categories |-> <<>>]

\* os.path.exists(DATA_FILE) is false.
FileAbsent == Condition("absent")
\* open() raises an OSError (IOError): no read permission, a directory.
FileUnreadable == Condition("unreadable")
\* json.load raises JSONDecodeError: the text is not JSON.
FileInvalid == Condition("invalid")
\* json.load returns a list, a number, a string or null: data has no get.
FileNonObject == Condition("nonobject")
\* The JSON object {}.
FileEmptyObject == Condition("object")

\* A JSON object with the keys in k (the lists of the other keys are not read).
Object(k, e, c) ==
    [kind |-> "object", keys |-> k,
     expenses |-> IF "expenses" \in k THEN e ELSE <<>>,
     categories |-> IF "categories" \in k THEN c ELSE <<>>]

\* data.get(key, default) on the object in the file.
Get(file, key, default) ==
    IF key \in file.keys
    THEN (IF key = "expenses" THEN file.expenses ELSE file.categories)
    ELSE default

\* save_data: the whole document replaces the file.
save_data_before_change == disk' = Document(expenses, categories)
save_data == disk' = Document(expenses', categories')

-----------------------------------------------------------------------------
(* ExpenseTracker: the store *)

Snapshot == [expenses |-> expenses, categories |-> categories, disk |-> disk]

Returned(v) == [raised |-> "none", value |-> v]
Raised(e) == [raised |-> e, value |-> FALSE]

\* The exception that leaves load_data: the except clause catches
\* json.JSONDecodeError and IOError only.
load_data_raises ==
    IF disk.kind = "nonobject" THEN "AttributeError" ELSE "none"

\* load_data: nothing when there is no file; the two lists from the object in
\* the file, each with its default when its key is missing; the empty list and
\* the defaults when the except clause runs; nothing assigned when another
\* exception leaves the method (data.get raises before the first assignment).
load_data ==
    /\ disk' = disk
    /\ CASE disk.kind = "absent" -> UNCHANGED <<expenses, categories>>
         [] disk.kind \in {"unreadable", "invalid"} ->
                /\ expenses' = <<>>
                /\ categories' = DEFAULT_CATEGORIES
         [] disk.kind = "object" ->
                /\ expenses' = Get(disk, "expenses", <<>>)
                /\ categories' = Get(disk, "categories", DEFAULT_CATEGORIES)
         [] OTHER -> UNCHANGED <<expenses, categories>>

\* The id add_expense gives the next record: len(self.expenses) + 1.
NextId(e) == Len(e) + 1

\* The record add_expense builds; date is optional and defaults to today.
NewExpense(e, amount, category, description, date) ==
    [id |-> NextId(e), amount |-> Float(amount), category |-> category,
     description |-> description,
     date |-> IF date.given THEN date.value ELSE Today]

\* add_expense: append the new record and save.
add_expense(amount, category, description, date) ==
    /\ expenses' = Append(expenses, NewExpense(expenses, amount, category, description, date))
    /\ categories' = categories
    /\ save_data

\* The index of the record the loop of update_expense stops at: the first whose
\* id is expense_id; 0 when the loop runs to its end.
FirstMatch(e, expense_id) ==
    IF \E i \in 1 .. Len(e) : e[i].id = expense_id
    THEN CHOOSE i \in 1 .. Len(e) :
            /\ e[i].id = expense_id
            /\ \A j \in 1 .. (i - 1) : e[j].id # expense_id
    ELSE 0

\* exp.update({...}): the four fields are overwritten, the id is kept.
UpdatedClobbersId(exp, expense_id, amount, category, description, date) ==
    [id |-> expense_id + 1, amount |-> amount, category |-> category,
     description |-> description, date |-> date]
Updated(exp, expense_id, amount, category, description, date) ==
    [id |-> exp.id, amount |-> Float(amount), category |-> category,
     description |-> description, date |-> date]

\* update_expense: overwrite the first record with that id and save; nothing,
\* not even a save, when no record has it.
update_expense(expense_id, amount, category, description, date) ==
    LET i == FirstMatch(expenses, expense_id) IN
    IF i # 0
    THEN /\ expenses' = [expenses EXCEPT
                            ![i] = Updated(@, expense_id, amount, category, description, date)]
         /\ categories' = categories
         /\ save_data
    ELSE UNCHANGED store

update_expense_result(expense_id) == FirstMatch(expenses, expense_id) # 0

\* The list delete_expense rebinds self.expenses to.
WithoutFirstMatch(e, expense_id) ==
    LET i == FirstMatch(e, expense_id) IN
    IF i = 0 THEN e ELSE SubSeq(e, 1, i - 1) \o SubSeq(e, i + 1, Len(e))
Without(e, expense_id) ==
    LET Keep(x) == x.id # expense_id IN SelectSeq(e, Keep)

\* delete_expense: drop every record with that id and save, match or no match.
delete_expense(expense_id) ==
    /\ expenses' = Without(expenses, expense_id)
    /\ categories' = categories
    /\ save_data

\* The test of add_category: a non-empty name that is not in the list.
AcceptsAnyNonEmpty(category) == category # ""
Accepts(category) ==
    /\ category # ""
    /\ category \notin Range(categories)

\* add_category: append and save when accepted; nothing otherwise.
add_category(category) ==
    IF Accepts(category)
    THEN /\ categories' = Append(categories, category)
         /\ expenses' = expenses
         /\ save_data
    ELSE UNCHANGED store

add_category_result(category) == Accepts(category)

-----------------------------------------------------------------------------
(* The store called directly *)

\* The ids of the records a delete_expense(expense_id) removes from e.
Removed(e, expense_id) == { e[i].id : i \in { j \in 1 .. Len(e) : e[j].id = expense_id } }

AddExpense ==
    /\ Len(expenses) < MaxExpenses
    /\ \E t \in ArgTuples, date \in DateArgs :
        /\ t.date = IF date.given THEN date.value ELSE Today
        /\ add_expense(t.amount, t.category, t.description, date)
        /\ last' = [op |-> "add_expense", amount |-> t.amount, category |-> t.category,
                    description |-> t.description, date |-> date]
        /\ ret' = Returned(NewExpense(expenses, t.amount, t.category, t.description, date))
    /\ prev' = Snapshot
    /\ UNCHANGED <<gui, deleted_ids, reports>>

UpdateExpense ==
    /\ \E id \in IdArgs, t \in ArgTuples :
        /\ update_expense(id, t.amount, t.category, t.description, t.date)
        /\ last' = [op |-> "update_expense", id |-> id, amount |-> t.amount,
                    category |-> t.category, description |-> t.description, date |-> t.date]
        /\ ret' = Returned(update_expense_result(id))
    /\ prev' = Snapshot
    /\ UNCHANGED <<gui, deleted_ids, reports>>

DeleteExpense ==
    /\ \E id \in IdArgs :
        /\ delete_expense(id)
        /\ last' = [op |-> "delete_expense", id |-> id]
    /\ ret' = Returned(FALSE)
    /\ prev' = Snapshot
    /\ UNCHANGED <<gui, deleted_ids, reports>>

\* delete_expense again, with the removed ids recorded in deleted_ids.
DeleteExpenseRecorded ==
    /\ \E id \in IdArgs :
        /\ delete_expense(id)
        /\ last' = [op |-> "delete_expense", id |-> id]
        /\ deleted_ids' = deleted_ids \cup Removed(expenses, id)
    /\ ret' = Returned(FALSE)
    /\ prev' = Snapshot
    /\ UNCHANGED <<gui, reports>>

AddCategory ==
    /\ \E c \in CategoryArgs :
        /\ add_category(c)
        /\ last' = [op |-> "add_category", category |-> c]
        /\ ret' = Returned(add_category_result(c))
    /\ prev' = Snapshot
    /\ UNCHANGED <<gui, deleted_ids, reports>>

\* The files ExpenseTracker() is constructed on without raising and with the
\* result an empty list and the default categories: no file, text that is not
\* JSON, an object with neither key, and the document of an empty store.
InitFiles == {FileAbsent, FileInvalid, FileEmptyObject, Document(<<>>, DEFAULT_CATEGORIES)}

\* setup_reports_tab: one checked BooleanVar per category of the store as it is
\* when the window is built.
CategoryVarsAtSetup(cats) ==
    [i \in 1 .. Len(cats) |-> [category |-> cats[i], checked |-> TRUE]]

GuiInit ==
    /\ selected_expense_id = <<>>
    /\ form = [amount |-> "", category |-> "Food & Dining", description |-> "", date |-> Today]
    /\ tree = <<>>
    /\ selected_row = <<>>
    /\ category_vars = CategoryVarsAtSetup(categories)
    /\ timeframe_var = "This Month"

InitStore ==
    /\ expenses = <<>>
    /\ categories = DEFAULT_CATEGORIES
    /\ disk \in InitFiles
    /\ GuiInit
    /\ last = [op |-> "__init__"]
    /\ ret = Returned(FALSE)
    /\ prev = Snapshot
    /\ deleted_ids = {}

NextStore == AddExpense \/ UpdateExpense \/ DeleteExpense \/ AddCategory

SpecStore == InitStore /\ [][NextStore]_vars

\* The files another program (or the user) may leave in place of DATA_FILE.
ForeignRecord ==
    [id |-> 1, amount |-> 5, category |-> "Travel", description |-> "bus", date |-> D_Jan05]
FileConditions ==
    {FileAbsent, FileUnreadable, FileInvalid, FileNonObject}
    \cup { Object(k, <<ForeignRecord>>, Append(DEFAULT_CATEGORIES, "Pets")) :
             k \in SUBSET {"expenses", "categories"} }

\* The file is replaced from outside the program.
ExternalWrite ==
    /\ \E f \in FileConditions \ {disk} : disk' = f
    /\ last' = [op |-> "external_write"]
    /\ ret' = Returned(FALSE)
    /\ prev' = Snapshot
    /\ UNCHANGED <<expenses, categories, gui, deleted_ids, reports>>

LoadData ==
    /\ load_data
    /\ last' = [op |-> "load_data"]
    /\ ret' = IF load_data_raises = "none" THEN Returned(FALSE) ELSE Raised(load_data_raises)
    /\ prev' = Snapshot
    /\ UNCHANGED <<gui, deleted_ids, reports>>

\* A constructed store that is used, whose file is replaced, and that loads again.
NextLoad == AddExpense \/ AddCategory \/ ExternalWrite \/ LoadData

SpecLoad == InitStore /\ [][NextLoad]_vars

\* Adds and deletes alone, with the deleted ids recorded.
NextIds == AddExpense \/ DeleteExpenseRecorded

SpecIds == InitStore /\ [][NextIds]_vars

-----------------------------------------------------------------------------
(* ExpenseTracker: the report queries *)

\* Python's truth value of an optional string or list: None and the empty
\* value are false.
Truthy(arg) == arg.given /\ arg.value # <<>>

\* e["date"] >= start_date, e["date"] <= end_date, e["category"] in categories.
StrictlyAfter(e, start_date) == StrLess(start_date, e.date)
NotBefore(e, start_date) == ~StrLess(e.date, start_date)
NotAfter(e, end_date) == ~StrLess(end_date, e.date)
InCategories(e, cats) == e.category \in Range(cats)

\* get_filtered_expenses: a copy of the list, narrowed by each filter whose
\* argument is true.
get_filtered_expenses(start_date, end_date, cats) ==
    LET copy == expenses
        KeepStart(e) == NotBefore(e, start_date.value)
        KeepEnd(e) == NotAfter(e, end_date.value)
        KeepCategory(e) == InCategories(e, cats.value)
        f1 == IF Truthy(start_date) THEN SelectSeq(copy, KeepStart) ELSE copy
        f2 == IF Truthy(end_date) THEN SelectSeq(f1, KeepEnd) ELSE f1
        f3 == IF Truthy(cats) THEN SelectSeq(f2, KeepCategory) ELSE f2
    IN  f3

\* sum(e["amount"] for e in s): from the integer 0, left to right.
RECURSIVE SumFrom(_, _)
SumFrom(acc, s) ==
    IF s = <<>> THEN acc ELSE SumFrom(FlAdd(acc, Head(s).amount), Tail(s))

\* by_category[c] += amount on a defaultdict(float): a missing key starts at 0.0.
Overwritten(by_category, c, amount) ==
    IF c \in DOMAIN by_category
    THEN [by_category EXCEPT ![c] = amount]
    ELSE by_category @@ (c :> amount)
Accumulated(by_category, c, amount) ==
    IF c \in DOMAIN by_category
    THEN [by_category EXCEPT ![c] = FlAdd(@, amount)]
    ELSE by_category @@ (c :> FlAdd(0, amount))

\* The loop of get_summary over the list.
RECURSIVE ByCategory(_, _)
ByCategory(by_category, s) ==
    IF s = <<>> THEN by_category
    ELSE ByCategory(Accumulated(by_category, Head(s).category, Head(s).amount), Tail(s))

\* The empty dict.
EmptyDict == [c \in {} |-> 0]

get_summary(s) ==
    [total |-> SumFrom(0, s), by_category |-> ByCategory(EmptyDict, s), count |-> Len(s)]

\* The filters get_filtered_expenses is called with.
StartArgs == {None, Some(EmptyStr), Some(D_Feb10)}
EndArgs == {None, Some(EmptyStr), Some(D_Feb10)}
CategoriesArgs ==
    {None, Some(<<>>), Some(<<"Food & Dining">>), Some(<<"Food & Dining", "Pets">>)}

GetFilteredExpenses ==
    /\ \E start_date \in StartArgs, end_date \in EndArgs, cats \in CategoriesArgs :
        /\ last' = [op |-> "get_filtered_expenses", start_date |-> start_date,
                    end_date |-> end_date, categories |-> cats]
        /\ ret' = Returned(get_filtered_expenses(start_date, end_date, cats))
    /\ prev' = Snapshot
    /\ UNCHANGED <<store, gui, deleted_ids, reports>>

GetSummary ==
    /\ last' = [op |-> "get_summary"]
    /\ ret' = Returned(get_summary(expenses))
    /\ prev' = Snapshot
    /\ UNCHANGED <<store, gui, deleted_ids, reports>>

\* The (date, category, amount) of the records the queries are run on.
ReportFields ==
    { [date |-> D_Jan05, category |-> "Food & Dining", amount |-> 16],
      [date |-> D_Feb10, category |-> "Transportation", amount |-> 1],
      [date |-> D_Feb10, category |-> "Food & Dining", amount |-> -16],
      [date |-> D_Mar01, category |-> "Pets", amount |-> 0] }

\* The stores the queries are run on: every list of up to MaxExpenses such
\* records, numbered as add_expense numbers them.
ReportStores ==
    UNION { { [i \in 1 .. n |->
                 [id |-> i, amount |-> f[i].amount, category |-> f[i].category,
                  description |-> "", date |-> f[i].date]] :
              f \in [1 .. n -> ReportFields] } : n \in 0 .. MaxExpenses }

\* A store loaded from the document of such a list.
InitReport ==
    /\ expenses \in ReportStores
    /\ categories = Append(DEFAULT_CATEGORIES, "Pets")
    /\ disk = Document(expenses, categories)
    /\ GuiInit
    /\ last = [op |-> "__init__"]
    /\ ret = Returned(FALSE)
    /\ prev = Snapshot
    /\ deleted_ids = {}

NextReport == GetFilteredExpenses \/ GetSummary

SpecReport == InitReport /\ [][NextReport]_vars

-----------------------------------------------------------------------------
(* ExpenseTrackerGUI: the expenses tab *)

\* float(text) on the texts the amount entry holds in the model: the value, or
\* ok = FALSE for the ValueError of a text that is no number.
ParseFloat(text) ==
    CASE text \in {"12", "12.00"} -> [ok |-> TRUE, value |-> Float(12)]
      [] text \in {"0", "0.00"} -> [ok |-> TRUE, value |-> Float(0)]
      [] text \in {"-5", "-5.00"} -> [ok |-> TRUE, value |-> Float(-5)]
      [] text \in {"", "abc"} -> [ok |-> FALSE, value |-> 0]

\* f"{amount:.2f}" on the amounts those texts parse to.
FormatAmount(amount) ==
    CASE amount = 12 -> "12.00"
      [] amount = 0 -> "0.00"
      [] amount = -5 -> "-5.00"

\* new_cat_var.get().strip() on the texts the new-category entry holds.
Strip(text) ==
    CASE text = " Pets " -> "Pets"
      [] text = " " -> ""
      [] OTHER -> text

\* sorted(s, key=date, reverse=True): descending by date, records of equal date
\* in their order in s.  Insert puts e behind every record not before it.
RECURSIVE Insert(_, _)
Insert(sorted, e) ==
    IF sorted = <<>> THEN <<e>>
    ELSE IF StrLess(Head(sorted).date, e.date) THEN <<e>> \o sorted
    ELSE <<Head(sorted)>> \o Insert(Tail(sorted), e)

RECURSIVE SortedByDateDescending(_)
SortedByDateDescending(s) ==
    IF s = <<>> THEN <<>>
    ELSE Insert(SortedByDateDescending(SubSeq(s, 1, Len(s) - 1)), s[Len(s)])

\* The values of the row tree.insert makes of a record.
Row(exp) ==
    [id |-> exp.id, date |-> exp.date, category |-> exp.category,
     description |-> exp.description, amount |-> FormatAmount(exp.amount)]

\* refresh_expense_list, as the rows of the tree after it.
refresh_expense_list(s) ==
    LET sorted == SortedByDateDescending(s) IN
    [i \in 1 .. Len(sorted) |-> Row(sorted[i])]

\* The form and the selection clear_form leaves.
ClearedForm ==
    [amount |-> "", category |-> IF categories # <<>> THEN categories[1] ELSE form.category,
     description |-> "", date |-> Today]

clear_form ==
    /\ form' = ClearedForm
    /\ selected_expense_id' = <<>>
    /\ selected_row' = <<>>

\* The texts in the form make an invalid submission: an amount that is no
\* number or not positive, or no category.
AmountRejected(f) == ~ParseFloat(f.amount).ok \/ ParseFloat(f.amount).value <= 0

\* ExpenseTrackerGUI.add_expense: the Add Expense button, enabled while no row
\* is selected.
GUI_add_expense ==
    /\ selected_expense_id = <<>>
    /\ last' = [op |-> "GUI.add_expense", form |-> form, selected |-> selected_expense_id]
    /\ prev' = Snapshot
    /\ IF AmountRejected(form) \/ form.category = ""
       THEN /\ ret' = Returned("showerror")
            /\ UNCHANGED <<store, gui>>
       ELSE /\ Len(expenses) < MaxExpenses
            /\ add_expense(ParseFloat(form.amount).value, form.category,
                           form.description, Some(form.date))
            /\ tree' = refresh_expense_list(expenses')
            /\ clear_form
            /\ ret' = Returned("showinfo")
    /\ UNCHANGED <<deleted_ids, reports>>

\* ExpenseTrackerGUI.update_expense: the Update button, enabled while a row is
\* selected.
GUI_update_expense ==
    /\ selected_expense_id # <<>>
    /\ last' = [op |-> "GUI.update_expense", form |-> form, selected |-> selected_expense_id,
                row |-> selected_row]
    /\ prev' = Snapshot
    /\ IF ~ParseFloat(form.amount).ok
       THEN /\ ret' = Returned("showerror")
            /\ UNCHANGED <<store, gui>>
       ELSE /\ update_expense(selected_expense_id[1], ParseFloat(form.amount).value,
                              form.category, form.description, form.date)
            /\ tree' = refresh_expense_list(expenses')
            /\ clear_form
            /\ ret' = Returned("showinfo")
    /\ UNCHANGED <<deleted_ids, reports>>

\* ExpenseTrackerGUI.delete_expense: the Delete Selected button and the answer
\* to its question.
GUI_delete_expense ==
    /\ selected_expense_id # <<>>
    /\ \E askyesno \in BOOLEAN :
        /\ last' = [op |-> "GUI.delete_expense", form |-> form,
                    selected |-> selected_expense_id, askyesno |-> askyesno,
                    row |-> selected_row]
        /\ IF askyesno
           THEN /\ delete_expense(selected_expense_id[1])
                /\ tree' = refresh_expense_list(expenses')
                /\ clear_form
           ELSE UNCHANGED <<store, gui>>
    /\ ret' = Returned("")
    /\ prev' = Snapshot
    /\ UNCHANGED <<deleted_ids, reports>>

\* The Clear button.
GUI_clear_form ==
    /\ form # ClearedForm \/ selected_expense_id # <<>>
    /\ clear_form
    /\ last' = [op |-> "GUI.clear_form", form |-> form, selected |-> selected_expense_id]
    /\ ret' = Returned("")
    /\ prev' = Snapshot
    /\ UNCHANGED <<store, tree, deleted_ids, reports>>

\* The place in s of the record each row of the tree shows: the places, sorted
\* as refresh_expense_list sorts the records.
RowPlaces(s) ==
    LET tagged == [i \in 1 .. Len(s) |-> [place |-> i, date |-> s[i].date]]
        sorted == SortedByDateDescending(tagged)
    IN  [i \in 1 .. Len(sorted) |-> sorted[i].place]

\* on_select: a row of the tree is clicked; its values fill the form.
on_select ==
    /\ \E i \in 1 .. Len(tree) :
        /\ selected_expense_id' = <<tree[i].id>>
        /\ selected_row' = <<RowPlaces(expenses)[i]>>
        /\ form' = [amount |-> tree[i].amount, category |-> tree[i].category,
                    description |-> tree[i].description, date |-> tree[i].date]
        /\ last' = [op |-> "on_select", form |-> form, selected |-> selected_expense_id,
                    row |-> i]
    /\ ret' = Returned("")
    /\ prev' = Snapshot
    /\ UNCHANGED <<store, tree, deleted_ids, reports>>

\* What the user types into the form.
FormEntries ==
    { [amount |-> "12", category |-> "Food & Dining", description |-> "lunch", date |-> D_Jan05],
      [amount |-> "-5", category |-> "Pets", description |-> "", date |-> D_Feb10],
      [amount |-> "0", category |-> "Pets", description |-> "", date |-> D_Feb10],
      [amount |-> "abc", category |-> "Pets", description |-> "", date |-> D_Feb10],
      [amount |-> "12", category |-> "", description |-> "", date |-> D_Feb10],
      [amount |-> "12", category |-> "Pets", description |-> "", date |-> D_Feb10] }

\* The user edits the entries of the form.
EditForm ==
    /\ \E f \in FormEntries \ {form} : form' = f
    /\ last' = [op |-> "edit", form |-> form, selected |-> selected_expense_id]
    /\ ret' = Returned("")
    /\ prev' = Snapshot
    /\ UNCHANGED <<store, selected_expense_id, tree, selected_row, deleted_ids, reports>>

\* What the user types into the new-category entry.
NewCategoryTexts == {" ", " Pets ", "Food & Dining"}

\* ExpenseTrackerGUI.add_category: the Add button of the category frame.
GUI_add_category ==
    /\ \E text \in NewCategoryTexts :
        LET new_cat == Strip(text) IN
        /\ last' = [op |-> "GUI.add_category", form |-> form,
                    selected |-> selected_expense_id, text |-> text]
        /\ IF new_cat # ""
           THEN /\ add_category(new_cat)
                /\ ret' = Returned(IF add_category_result(new_cat)
                                   THEN "showinfo" ELSE "showwarning")
           ELSE /\ UNCHANGED store
                /\ ret' = Returned("")
    /\ prev' = Snapshot
    /\ UNCHANGED <<gui, deleted_ids, reports>>

\* ExpenseTrackerGUI(root) on one of the files of InitStore.
InitGUI ==
    /\ InitStore
    /\ tree = refresh_expense_list(expenses)

NextGUI ==
    \/ EditForm
    \/ GUI_add_expense
    \/ on_select
    \/ GUI_update_expense
    \/ GUI_delete_expense
    \/ GUI_clear_form
    \/ GUI_add_category

SpecGUI == InitGUI /\ [][NextGUI]_vars

-----------------------------------------------------------------------------
(* ExpenseTrackerGUI: the reports tab *)

\* today.replace(day=1) and today.replace(month=1, day=1), formatted %Y-%m-%d.
FirstOfMonth(today) == [today EXCEPT ![9] = 48, ![10] = 49]
FirstOfYear(today) == [FirstOfMonth(today) EXCEPT ![6] = 48, ![7] = 49]

\* The entries of the timeframe box the user picks from.
Timeframes == {"This Month", "This Year", "All Time"}

\* get_date_range: the (start, end) pair of the timeframe picked.
get_date_range ==
    CASE timeframe_var = "This Month" ->
           [start_date |-> Some(FirstOfMonth(Today)), end_date |-> Some(Today)]
      [] timeframe_var = "This Year" ->
           [start_date |-> Some(FirstOfYear(Today)), end_date |-> Some(Today)]
      [] timeframe_var = "All Time" ->
           [start_date |-> None, end_date |-> None]
      [] OTHER ->
           [start_date |-> Some(FirstOfMonth(Today)), end_date |-> Some(Today)]

\* get_selected_categories: the checked categories, in the order of the keys.
get_selected_categories ==
    LET Checked(v) == v.checked
        selected == SelectSeq(category_vars, Checked)
    IN  [i \in 1 .. Len(selected) |-> selected[i].category]

\* var.set(value) on every checkbox.
SetAll(value) == [i \in 1 .. Len(category_vars) |-> [category_vars[i] EXCEPT !.checked = value]]

AllChecked == \A i \in 1 .. Len(category_vars) : category_vars[i].checked

\* The timeframe box: the user picks another entry; on_timeframe_change only
\* switches the two date entries off for these entries.
on_timeframe_change ==
    /\ \E timeframe \in Timeframes \ {timeframe_var} : timeframe_var' = timeframe
    /\ last' = [op |-> "on_timeframe_change", form |-> form, selected |-> selected_expense_id]
    /\ ret' = Returned("")
    /\ prev' = Snapshot
    /\ UNCHANGED <<store, gui, deleted_ids, category_vars>>

\* The Select All button.
select_all_categories ==
    /\ category_vars' = SetAll(TRUE)
    /\ last' = [op |-> "select_all_categories", form |-> form, selected |-> selected_expense_id]
    /\ ret' = Returned("")
    /\ prev' = Snapshot
    /\ UNCHANGED <<store, gui, deleted_ids, timeframe_var>>

\* The Deselect All button.
deselect_all_categories ==
    /\ category_vars' = SetAll(FALSE)
    /\ last' = [op |-> "deselect_all_categories", form |-> form, selected |-> selected_expense_id]
    /\ ret' = Returned("")
    /\ prev' = Snapshot
    /\ UNCHANGED <<store, gui, deleted_ids, timeframe_var>>

\* The report generate_report stores in current_report, or the warning it
\* shows instead when no category is checked.
current_report ==
    LET range == get_date_range
        cats == get_selected_categories
        filtered == get_filtered_expenses(range.start_date, range.end_date, Some(cats))
    IN  IF cats = <<>>
        THEN [shown |-> "showwarning", start_date |-> range.start_date,
              end_date |-> range.end_date, categories |-> cats, expenses |-> <<>>,
              summary |-> get_summary(<<>>), timeframe |-> timeframe_var]
        ELSE [shown |-> "report", start_date |-> range.start_date,
              end_date |-> range.end_date, categories |-> cats, expenses |-> filtered,
              summary |-> get_summary(filtered), timeframe |-> timeframe_var]

\* The Generate Report button.
generate_report ==
    /\ last' = [op |-> "generate_report", form |-> form, selected |-> selected_expense_id]
    /\ ret' = Returned(current_report)
    /\ prev' = Snapshot
    /\ UNCHANGED <<store, gui, deleted_ids, reports>>

\* The window with both tabs in use: records are added and deleted and
\* categories added on the expenses tab, reports are generated on the reports
\* tab.  The Update button is exercised in SpecGUI.
NextTabs ==
    \/ EditForm
    \/ GUI_add_expense
    \/ on_select
    \/ GUI_delete_expense
    \/ GUI_clear_form
    \/ GUI_add_category
    \/ on_timeframe_change
    \/ select_all_categories
    \/ deselect_all_categories
    \/ generate_report

SpecTabs == InitGUI /\ [][NextTabs]_vars

-----------------------------------------------------------------------------
(* Properties of the store *)

StoreOps == {"add_expense", "update_expense", "delete_expense", "add_category"}

Ids(e) == [i \in 1 .. Len(e) |-> e[i].id]

IsPrefix(s, t) == Len(s) <= Len(t) /\ SubSeq(t, 1, Len(s)) = s

NoDuplicates(s) == \A i, j \in 1 .. Len(s) : i # j => s[i] # s[j]

\* C1: in every state reached by add, update and delete calls, the ids of the
\* records in the store are positive and pairwise distinct.
C1_IdsPositiveDistinct ==
    /\ \A i \in 1 .. Len(expenses) : expenses[i].id >= 1
    /\ NoDuplicates(Ids(expenses))

\* C2: three adds to an empty store give ids 1, 2, 3, and after deleting id 2 the
\* next add gives id 4; in general add never gives an id that a record deleted
\* earlier had.
C2_NoIdReuse ==
    last.op = "add_expense" =>
        /\ ret.value.id \notin deleted_ids
        /\ (Ids(prev.expenses) = <<1, 3>> /\ deleted_ids = {2}) => ret.value.id = 4

\* C3 as stated: after every add, update, delete or add_category call returns,
\* the file holds the document of the in-memory lists.
C3_EveryCallPersists ==
    last.op \in StoreOps => disk = Document(expenses, categories)

\* C3 as amended: after every add and delete call, and after every update or
\* add_category call that reports success, the file holds the document of the
\* in-memory lists; an update or add_category call that reports failure leaves
\* the lists and the file as they were.
C3_MutationsPersist ==
    /\ (\/ last.op \in {"add_expense", "delete_expense"}
        \/ last.op \in {"update_expense", "add_category"} /\ ret.value = TRUE)
       => disk = Document(expenses, categories)
    /\ (last.op \in {"update_expense", "add_category"} /\ ret.value = FALSE)
       => Snapshot = prev

C3_Witness ==
    /\ last.op = "update_expense"
    /\ ret.value = TRUE
    /\ expenses # prev.expenses
    /\ prev.disk.kind = "object"
    /\ disk # prev.disk

\* A file that load_data reads as a store document: an object with both keys.
ValidDocument(file) == file.kind = "object" /\ file.keys = {"expenses", "categories"}

\* C4: load never raises, and whenever the file is absent or is not a valid
\* store document (unreadable, not JSON, JSON that is no object, an object
\* missing a key) the store is left with no expenses and the default
\* categories, also when the store held records and added categories before.
C4_LoadNeverRaisesAndResets ==
    last.op = "load_data" =>
        /\ ret.raised = "none"
        /\ ~ValidDocument(disk) => (expenses = <<>> /\ categories = DEFAULT_CATEGORIES)

\* C5: update never changes the number, order or ids of the records.  When no
\* record has the id it returns False and the records, the categories and the
\* file are unchanged.  When a record has the id it returns True, the first
\* such record keeps its id and takes the four arguments as its fields, and
\* every other record (every record with another id among them) is unchanged.
C5_UpdateFrame ==
    last.op = "update_expense" =>
        LET old == prev.expenses
            hits == { i \in 1 .. Len(old) : old[i].id = last.id }
        IN  /\ Len(expenses) = Len(old)
            /\ Ids(expenses) = Ids(old)
            /\ categories = prev.categories
            /\ hits = {} => /\ ret = Returned(FALSE)
                            /\ Snapshot = prev
            /\ hits # {} =>
                 LET i == CHOOSE k \in hits : \A h \in hits : k <= h IN
                 /\ ret = Returned(TRUE)
                 /\ expenses[i] = [id |-> last.id, amount |-> last.amount,
                                   category |-> last.category,
                                   description |-> last.description, date |-> last.date]
                 /\ \A j \in 1 .. Len(old) : j # i => expenses[j] = old[j]

C5_Witness ==
    /\ last.op = "update_expense"
    /\ ret.value = TRUE
    /\ Len(expenses) >= 2
    /\ expenses # prev.expenses

\* C6: after delete(id) no record has that id; the records left are exactly the
\* earlier records with another id, in their earlier order and unchanged; the
\* categories are unchanged; with no match the records are unchanged; nothing
\* is raised.
C6_DeleteExact ==
    last.op = "delete_expense" =>
        LET old == prev.expenses
            kept == { i \in 1 .. Len(old) : old[i].id # last.id }
            Nth(k) == CHOOSE i \in kept : Cardinality({ j \in kept : j <= i }) = k
        IN  /\ \A i \in 1 .. Len(expenses) : expenses[i].id # last.id
            /\ Len(expenses) = Cardinality(kept)
            /\ \A k \in 1 .. Len(expenses) : expenses[k] = old[Nth(k)]
            /\ categories = prev.categories
            /\ Cardinality(kept) = Len(old) => expenses = old
            /\ ret.raised = "none"

C6_Witness ==
    /\ last.op = "delete_expense"
    /\ Len(expenses) >= 1
    /\ Len(prev.expenses) = Len(expenses) + 2

\* C7: the category list starts as the eight defaults, never holds a string
\* twice, and each call leaves the earlier list as a prefix of the later one.
\* add_category(name) returns True exactly when name is non-empty and was not in
\* the list, and then the list is the earlier one with name appended; otherwise
\* it returns False and the list is unchanged.
C7_Categories ==
    /\ NoDuplicates(categories)
    /\ IsPrefix(DEFAULT_CATEGORIES, categories)
    /\ IsPrefix(prev.categories, categories)
    /\ last.op = "add_category" =>
        /\ ret.value = (last.category # "" /\ last.category \notin Range(prev.categories))
        /\ ret.value = TRUE => categories = Append(prev.categories, last.category)
        /\ ret.value = FALSE => categories = prev.categories

C7_Witness ==
    /\ last.op = "add_category"
    /\ ret.value = TRUE
    /\ Len(categories) = Len(DEFAULT_CATEGORIES) + 2
    /\ Len(expenses) >= 1

-----------------------------------------------------------------------------
(* Properties of the report queries *)

\* The k-th smallest member of a set of indices.
Nth(kept, k) == CHOOSE i \in kept : Cardinality({ j \in kept : j <= i }) = k

\* s is the subsequence of old at the indices in kept, in order.
IsSubsequenceAt(s, old, kept) ==
    /\ Len(s) = Cardinality(kept)
    /\ \A k \in 1 .. Len(s) : s[k] = old[Nth(kept, k)]

\* C8 as stated: the result is the records, in input order, whose date is >=
\* start_date when start_date is given, <= end_date when end_date is given, and
\* whose category is in categories when categories is given (a given but empty
\* list selects nothing); the call leaves the records as they were.
C8_FilterWhenGiven ==
    last.op = "get_filtered_expenses" =>
        LET old == prev.expenses
            kept == { i \in 1 .. Len(old) :
                        /\ last.start_date.given =>
                              ~StrLess(old[i].date, last.start_date.value)
                        /\ last.end_date.given =>
                              ~StrLess(last.end_date.value, old[i].date)
                        /\ last.categories.given =>
                              old[i].category \in Range(last.categories.value) }
        IN  /\ IsSubsequenceAt(ret.value, old, kept)
            /\ expenses = old

\* C8 as amended: the same with "given and not empty" for "given": an absent
\* or empty start_date, end_date or categories is no restriction.
C8_FilterWhenNonEmpty ==
    last.op = "get_filtered_expenses" =>
        LET old == prev.expenses
            kept == { i \in 1 .. Len(old) :
                        /\ (last.start_date.given /\ last.start_date.value # <<>>) =>
                              ~StrLess(old[i].date, last.start_date.value)
                        /\ (last.end_date.given /\ last.end_date.value # <<>>) =>
                              ~StrLess(last.end_date.value, old[i].date)
                        /\ (last.categories.given /\ last.categories.value # <<>>) =>
                              old[i].category \in Range(last.categories.value) }
        IN  /\ IsSubsequenceAt(ret.value, old, kept)
            /\ expenses = old

C8_Witness ==
    /\ last.op = "get_filtered_expenses"
    /\ last.start_date = Some(D_Feb10)
    /\ last.end_date = Some(D_Feb10)
    /\ last.categories = Some(<<"Food & Dining">>)
    /\ Len(ret.value) = 1
    /\ Len(expenses) = 3

\* The amounts of the records of s with category c, in order.
AmountsOf(s, c) ==
    LET Is(e) == e.category = c IN SelectSeq(s, Is)

\* The categories of s in order of first occurrence: the key order of the dict.
RECURSIVE KeyOrder(_, _)
KeyOrder(seen, s) ==
    IF s = <<>> THEN seen
    ELSE IF Head(s).category \in Range(seen) THEN KeyOrder(seen, Tail(s))
    ELSE KeyOrder(Append(seen, Head(s).category), Tail(s))

\* sum(by_category.values()).
SumOfValues(by_category, s) ==
    LET keys == KeyOrder(<<>>, s)
        values == [k \in 1 .. Len(keys) |-> [amount |-> by_category[keys[k]]]]
    IN  SumFrom(0, values)

\* The exact sum of the magnitudes of the amounts.
RECURSIVE SumAbs(_)
SumAbs(s) ==
    IF s = <<>> THEN 0
    ELSE (IF Head(s).amount < 0 THEN 0 - Head(s).amount ELSE Head(s).amount) + SumAbs(Tail(s))

Abs(x) == IF x < 0 THEN 0 - x ELSE x

\* What C9 says of count, total, the keys and the values of by_category, and
\* of the summary of no records.
SummaryShape(r, s) ==
    /\ r.count = Len(s)
    /\ r.total = SumFrom(0, s)
    /\ DOMAIN r.by_category = { s[i].category : i \in 1 .. Len(s) }
    /\ \A c \in DOMAIN r.by_category : r.by_category[c] = SumFrom(0, AmountsOf(s, c))
    /\ s = <<>> => (r.total = 0 /\ r.count = 0 /\ DOMAIN r.by_category = {})

\* C9 as stated: count is the length, total the sum of the amounts, by_category
\* has exactly the categories that occur as keys, each with the sum of its
\* amounts, and the sum of the values of by_category equals total.
C9_SummaryExact ==
    last.op = "get_summary" =>
        /\ SummaryShape(ret.value, prev.expenses)
        /\ SumOfValues(ret.value.by_category, prev.expenses) = ret.value.total

\* C9 as amended: the same, with the sum of the values of by_category equal to
\* total when no addition rounds (the magnitudes of the amounts sum to less
\* than 2^MantissaBits units), and otherwise within one unit in the last
\* place of twice that sum per record.
C9_SummaryWithinRounding ==
    last.op = "get_summary" =>
        LET s == prev.expenses
            r == ret.value
            diff == Abs(SumOfValues(r.by_category, s) - r.total)
        IN  /\ SummaryShape(r, s)
            /\ SumAbs(s) < 2 ^ MantissaBits => diff = 0
            /\ diff <= Len(s) * Ulp(2 * SumAbs(s))

C9_Witness ==
    /\ last.op = "get_summary"
    /\ Len(expenses) = 3
    /\ Cardinality(DOMAIN ret.value.by_category) = 2
    /\ \E c \in DOMAIN ret.value.by_category : ret.value.by_category[c] = 0
    /\ ret.value.total # 0

-----------------------------------------------------------------------------
(* Properties of the expenses tab *)

\* C10: an Add Expense or Update submission whose amount is no number or is not
\* positive, or whose category is empty, changes neither the records of the
\* store nor the file.
C10_InvalidSubmissionAborts ==
    (/\ last.op \in {"GUI.add_expense", "GUI.update_expense"}
     /\ AmountRejected(last.form) \/ last.form.category = "")
    => (expenses = prev.expenses /\ disk = prev.disk)

\* C11: after any sequence of actions in the window, a report generated with
\* the timeframe All Time and every category checkbox checked covers the whole
\* store: it is a report, its count is the number of records in the store and
\* its total is the sum of all their amounts.  Stated for the stores the claim
\* singles out: every record carries a category of the category list, the
\* categories added at runtime through Add Category included.
C11_AllTimeReportCoversStore ==
    (/\ last.op = "generate_report"
     /\ timeframe_var = "All Time"
     /\ AllChecked
     /\ \A i \in 1 .. Len(expenses) : expenses[i].category \in Range(categories))
    => /\ ret.value.shown = "report"
       /\ ret.value.summary.count = Len(expenses)
       /\ ret.value.summary.total = SumFrom(0, expenses)

\* The list s without its k-th record.
WithoutPlace(s, k) == SubSeq(s, 1, k - 1) \o SubSeq(s, k + 1, Len(s))

\* C12: acting on a selected row affects exactly that row.  A confirmed Delete
\* Selected leaves the store one record shorter, without the record the selected
\* row shows and with every other record in place; an Update that goes through
\* gives the record the selected row shows the fields of the form and leaves
\* its id and every other record as they were.
C12_SelectedRowOnly ==
    /\ (last.op = "GUI.delete_expense" /\ last.askyesno)
       => /\ Len(expenses) = Len(prev.expenses) - 1
          /\ expenses = WithoutPlace(prev.expenses, last.row[1])
    /\ (last.op = "GUI.update_expense" /\ ret.value = "showinfo")
       => /\ Len(expenses) = Len(prev.expenses)
          /\ \A i \in 1 .. Len(prev.expenses) :
                IF i = last.row[1]
                THEN expenses[i] =
                       [id |-> prev.expenses[i].id,
                        amount |-> ParseFloat(last.form.amount).value,
                        category |-> last.form.category,
                        description |-> last.form.description,
                        date |-> last.form.date]
                ELSE expenses[i] = prev.expenses[i]

=============================================================================
